---- MODULE Spec2Model ----
(***************************************************************************)
(* Model of the internship notification bots of this repository:           *)
(*   src/main.py  DualPlatformInternshipBot (AICTE + Internshala)          *)
(*   src/bot.py   InternshipBot (AICTE only)                               *)
(* One cycle is fetch -> parse -> filter -> deduplicate -> notify ->       *)
(* summarise; the seen ids are kept in a JSON file between cycles.         *)
(***************************************************************************)
EXTENDS Integers, Sequences, FiniteSets, TLC

(***************************************************************************)
(* Bounds of the model.                                                    *)
(***************************************************************************)
MaxCycles == 2
MaxFetch == 2
MaxServed == 1

(***************************************************************************)
(* Program constants.  The caps are 2000 (main.py:364) and 1000            *)
(* (bot.py:209) in the source; the model keeps their 2:1 ratio at a size   *)
(* the listings of the model can overflow.                                 *)
(***************************************************************************)
MainSeenCap == 2
BotSeenCap == 1

(***************************************************************************)
(* Text.  A Python str is a sequence of one-character strings.             *)
(***************************************************************************)
UpperChars == <<"A","B","C","D","E","F","G","H","I","J","K","L","M",
                "N","O","P","Q","R","S","T","U","V","W","X","Y","Z">>
LowerChars == <<"a","b","c","d","e","f","g","h","i","j","k","l","m",
                "n","o","p","q","r","s","t","u","v","w","x","y","z">>

LowerChar(c) ==
    IF \E k \in 1..26 : UpperChars[k] = c
    THEN LowerChars[CHOOSE k \in 1..26 : UpperChars[k] = c]
    ELSE c

Lower(s) == [k \in 1..Len(s) |-> LowerChar(s[k])]

Contains(needle, hay) ==
    \E k \in 0..(Len(hay) - Len(needle)) :
        \A j \in 1..Len(needle) : hay[k + j] = needle[j]

ReplaceChar(s, from, to) == [k \in 1..Len(s) |-> IF s[k] = from THEN to ELSE s[k]]

(***************************************************************************)
(* Configuration.                                                          *)
(***************************************************************************)
preferred_domains ==
    << <<"d","a","t","a"," ","s","c","i","e","n","c","e">>,
       <<"m","a","c","h","i","n","e"," ","l","e","a","r","n","i","n","g">>,
       <<"a","r","t","i","f","i","c","i","a","l"," ",
         "i","n","t","e","l","l","i","g","e","n","c","e">>,
       <<"a","i">>,
       <<"m","l">>,
       <<"d","a","t","a"," ","a","n","a","l","y","s","t">>,
       <<"a","i","/","m","l">> >>

AICTE == <<"A","I","C","T","E">>
Internshala == <<"I","n","t","e","r","n","s","h","a","l","a">>
Platforms == {AICTE, Internshala}

NoUrl == "None"

(***************************************************************************)
(* The listings the two sites can show.  A card carries the fields the     *)
(* parsers read.                                                           *)
(***************************************************************************)
Card(company, name, location, posted_on, href) ==
    [company |-> company, name |-> name, location |-> location,
     posted_on |-> posted_on, href |-> href]

AICTECards ==
    { Card(<<"X">>, <<"M","L">>, <<"P">>, <<"1">>, "u1"),
      Card(<<"X">>, <<"H","R">>, <<"P">>, <<"1">>, NoUrl) }

InternshalaCards ==
    { Card(<<"Y">>, <<"A","i">>, <<"Q">>, <<"2">>, "u2") }

CardsOf(platform) == IF platform = AICTE THEN AICTECards ELSE InternshalaCards

Md5(s) == <<"md5", s>>

MainId(platform, company, name, posted_on) ==
    Md5(platform \o <<"-">> \o company \o <<"-">> \o name \o <<"-">> \o posted_on)

BotId(company, name, location, posted_on) ==
    ReplaceChar(company \o <<"-">> \o name \o <<"-">> \o location \o <<"-">> \o posted_on,
                " ", "_")

ParseCard(platform, card) ==
    [id |-> MainId(platform, card.company, card.name, card.posted_on),
     platform |-> platform,
     name |-> card.name,
     company |-> card.company,
     location |-> card.location,
     posted_on |-> card.posted_on,
     details_url |-> card.href]

BotParseCard(card) ==
    [id |-> BotId(card.company, card.name, card.location, card.posted_on),
     name |-> card.name,
     company |-> card.company,
     location |-> card.location,
     posted_on |-> card.posted_on,
     details_url |-> card.href]

SeqsUpTo(S, n) == UNION { [1..k -> S] : k \in 0..n }

FetchResults(platform) ==
    { [k \in 1..Len(cs) |-> ParseCard(platform, cs[k])] :
        cs \in SeqsUpTo(CardsOf(platform), MaxFetch) }

BotFetchResults ==
    { [k \in 1..Len(cs) |-> BotParseCard(cs[k])] :
        cs \in SeqsUpTo(AICTECards, MaxFetch) }

(***************************************************************************)
(* Ids                                                                     *)
(***************************************************************************)
IdsOf(internships) == { internships[k].id : k \in 1..Len(internships) }

\* ids of listings notified by earlier runs of the process and no longer shown
OldIds == { <<"md5", <<"o","l","d", c>>>> : c \in {"1", "2"} }

MainIds == { ParseCard(p, c).id : p \in {AICTE}, c \in AICTECards }
           \cup { ParseCard(p, c).id : p \in {Internshala}, c \in InternshalaCards }
BotIds == { BotParseCard(c).id : c \in AICTECards }

Min(a, b) == IF a < b THEN a ELSE b

(***************************************************************************)
(* State.                                                                  *)
(***************************************************************************)
VARIABLES
    program,          \* "main" (src/main.py) or "bot" (src/bot.py)
    render,           \* RENDER is set: the health-check server thread runs
    hasToken,         \* config['TELEGRAM_BOT_TOKEN'] is set and not empty
    hasChat,          \* config['TELEGRAM_CHAT_ID'] is set and not empty
    scrapers,         \* self.scrapers, the enabled platforms in order
    interests,        \* self.preferred_domains
    callArg,          \* argument of a function called on its own
    callResult,       \* what that call returned
    keepHistory,      \* the outcomes of the cycles are recorded in history
    run,              \* number of times the service was started again
    history,          \* one entry per cycle that ended, oldest first
    proc,             \* "alive", "exit0" (signal handler), "exit1" (fatal error)
    pc,               \* where the main thread is
    cycle,            \* number of run_check calls started
    scheduled,        \* the running run_check was started by schedule.run_pending
    active,           \* number of run_check calls in progress
    due,              \* the scheduled job's interval has elapsed
    inflight,         \* the main thread is inside a network call (requests.post / get)
    interrupted,      \* the shutdown signal arrived while a network call was in flight
    served,           \* health-check requests answered
    seenFile,         \* the ids in seen_internships.json
    insertedAt,       \* for each id of the file, the cycle that added it (0: before start)
    torn,             \* the file was opened for writing and the dump did not complete
    srcIdx,           \* position of the loop over self.scrapers
    raised,           \* platforms whose processing raised in this cycle
    filteredBy,       \* per platform, the list filter_by_domain returned in this cycle
    all_internships,
    platform_stats,
    new_internships,
    loaded,           \* the set load_seen_internships returned in this cycle
    loadOk,           \* no read of the seen file has failed in this cycle
    saveOk,           \* no write of the seen file has failed in this cycle
    loads,            \* calls of load_seen_internships in this cycle
    saves,            \* calls of save_seen_internships in this cycle
    sendIdx,          \* position of the loop over new_internships
    sent_count,
    cycleSends,       \* the posting sends attempted in this cycle, in order
    summaries,        \* the summary messages attempted in this cycle
    errorNotes,       \* error notifications attempted so far
    attempted         \* ids that ever had a posting send attempt

config == <<program, render, hasToken, hasChat, scrapers, interests>>
probe == <<callArg, callResult, keepHistory, run>>
sched == <<proc, pc, cycle, scheduled, active, due>>
net == <<inflight, interrupted>>
store == <<seenFile, insertedAt, torn>>
fetchLocals == <<srcIdx, raised, filteredBy, all_internships, platform_stats>>
dedupLocals == <<new_internships, loaded, loadOk, saveOk, loads, saves>>
notifyLocals == <<sendIdx, sent_count, cycleSends, summaries, errorNotes>>
vars == <<config, probe, history, sched, net, store, fetchLocals, dedupLocals, notifyLocals, served, attempted>>

(***************************************************************************)
(* filter_by_domain                                                        *)
(***************************************************************************)
\* internship.get('description', '')
Description(internship) ==
    IF "description" \in DOMAIN internship THEN internship.description ELSE <<>>

\* variant: the text is searched as written
SearchTextAsWritten(internship) ==
    internship.name \o <<" ">> \o internship.company \o <<" ">> \o Description(internship)

\* f"{name} {company} {description}".lower()
SearchText(internship) ==
    Lower(internship.name \o <<" ">> \o internship.company \o <<" ">> \o Description(internship))

MatchesDomain(internship) ==
    \E d \in 1..Len(interests) :
        Contains(Lower(interests[d]), SearchText(internship))

\* variant: every posting passes
filter_by_domainAll(internships) == internships

filter_by_domain(internships) == SelectSeq(internships, MatchesDomain)

SeenCap == IF program = "main" THEN MainSeenCap ELSE BotSeenCap
KnownIds == (IF program = "main" THEN MainIds ELSE BotIds) \cup OldIds

NoStats == <<>>
ZeroStats == [found |-> 0, filtered |-> 0, new |-> 0]

\* the list handed to get_new_internships in this cycle
Batch ==
    IF program = "main" THEN all_internships
    ELSE IF AICTE \in DOMAIN filteredBy THEN filteredBy[AICTE] ELSE <<>>

InCycle == pc \in {"fetch", "dedup", "notify", "done", "error"}

\* what is kept of a cycle when it ends.  Of a completed cycle: the ids whose
\* send succeeded and whether the file was read and written.  Of a cycle that
\* ended inside the write: the ids it was given and what the file held.
CycleEntry(end) ==
    [end |-> end,
     batch |-> IF end = "torn" THEN IdsOf(Batch) ELSE {},
     file |-> IF end = "torn" THEN seenFile ELSE {},
     sent |-> IF end = "completed"
              THEN { cycleSends[k].id : k \in { j \in 1..Len(cycleSends) : cycleSends[j].ok } }
              ELSE {},
     loaded |-> (end = "completed" /\ loadOk),
     saved |-> (end = "completed" /\ saveOk)]

Logged(end) ==
    IF keepHistory THEN history' = Append(history, CycleEntry(end)) ELSE UNCHANGED history

\* of a completed cycle, in more detail: the ids that had a send attempt,
\* the ids returned as new, whether the set handed to the write was within
\* the cap, and whether the file was read and written
CycleNote ==
    [end |-> "completed",
     sent |-> { cycleSends[k].id : k \in { j \in 1..Len(cycleSends) : cycleSends[j].ok } },
     tried |-> { cycleSends[k].id : k \in 1..Len(cycleSends) },
     new |-> IdsOf(new_internships),
     within |-> Cardinality(loaded \cup IdsOf(new_internships)) <= SeenCap,
     loaded |-> loadOk,
     saved |-> saveOk]

Noted ==
    IF keepHistory THEN history' = Append(history, CycleNote) ELSE UNCHANGED history

(***************************************************************************)
(* load_seen_internships / save_seen_internships / get_new_internships     *)
(***************************************************************************)
\* variant: a failed read still yields the ids of the file
load_seen_internshipsStale(readOk) == seenFile

\* the except clause logs a warning and falls through to return set()
load_seen_internships(readOk) == IF readOk THEN seenFile ELSE {}

\* variant: the list is written without truncation
LastOfUntruncated(seen_ids, cap) == {seen_ids}

\* list(seen_ids)[-cap:]: a set has no defined order, so any cap elements
\* can be the last ones.
LastOf(seen_ids, cap) ==
    { kept \in SUBSET seen_ids : Cardinality(kept) = Min(cap, Cardinality(seen_ids)) }

\* variant: no posting counts as seen
IsSeenNever(internship, seen) == FALSE

\* i['id'] in seen
IsSeen(internship, seen) == internship.id \in seen

\* variant: the new postings are returned latest first
NewAgainstLatestFirst(internships, seen) ==
    LET new == SelectSeq(internships, LAMBDA i : ~IsSeen(i, seen))
    IN  [k \in 1..Len(new) |-> new[Len(new) - k + 1]]

\* [i for i in internships if i['id'] not in seen]
NewAgainst(internships, seen) == SelectSeq(internships, LAMBDA i : ~IsSeen(i, seen))

\* variant: the ids of the new postings are not added to the set
WithNewLeftOut(seen, new) == seen

\* for internship in new_internships: seen.add(internship['id'])
WithNew(seen, new) == seen \cup IdsOf(new)

save_seen_internships(seen_ids, writeOk, addedNow) ==
    IF writeOk
    THEN \E kept \in LastOf(seen_ids, SeenCap) :
            /\ seenFile' = kept
            /\ torn' = FALSE
            /\ insertedAt' = [id \in kept |->
                                IF id \in addedNow \/ id \notin DOMAIN insertedAt
                                THEN cycle ELSE insertedAt[id]]
    ELSE UNCHANGED store

\* json.load raises on a file whose dump was cut short
ReadOutcomes == IF torn THEN {FALSE} ELSE BOOLEAN

get_new_internships(internships) ==
    \E readOk \in ReadOutcomes, writeOk \in BOOLEAN :
        LET seen == load_seen_internships(readOk)
            new == NewAgainst(internships, seen)
        IN  /\ new_internships' = new
            /\ loaded' = seen
            /\ loadOk' = (loadOk /\ readOk)
            /\ saveOk' = (saveOk /\ writeOk)
            /\ loads' = loads + 1
            /\ saves' = saves + 1
            /\ save_seen_internships(WithNew(seen, new), writeOk, IdsOf(new))

(***************************************************************************)
(* Construction and start.                                                 *)
(***************************************************************************)
ClearedLocals ==
    /\ srcIdx = 0
    /\ raised = {}
    /\ filteredBy = NoStats
    /\ all_internships = <<>>
    /\ platform_stats = NoStats
    /\ new_internships = <<>>
    /\ loaded = {}
    /\ loadOk = TRUE
    /\ saveOk = TRUE
    /\ loads = 0
    /\ saves = 0
    /\ sendIdx = 0
    /\ sent_count = 0
    /\ cycleSends = <<>>
    /\ summaries = <<>>

ClearLocals ==
    /\ srcIdx' = 0
    /\ raised' = {}
    /\ filteredBy' = NoStats
    /\ all_internships' = <<>>
    /\ platform_stats' = NoStats
    /\ new_internships' = <<>>
    /\ loaded' = {}
    /\ loadOk' = TRUE
    /\ saveOk' = TRUE
    /\ loads' = 0
    /\ saves' = 0
    /\ sendIdx' = 0
    /\ sent_count' = 0
    /\ cycleSends' = <<>>
    /\ summaries' = <<>>

Init ==
    /\ program \in {"main", "bot"}
    /\ render \in BOOLEAN
    /\ interests = preferred_domains
    /\ callArg = <<>>
    /\ callResult = <<>>
    /\ keepHistory = FALSE
    /\ run = 0
    /\ history = <<>>
    /\ hasToken \in BOOLEAN
    /\ hasChat \in BOOLEAN
    /\ scrapers \in IF program = "main"
                    THEN {<<AICTE, Internshala>>, <<AICTE>>, <<Internshala>>, <<>>}
                    ELSE {<<AICTE>>}
    /\ proc = "alive"
    /\ pc = "main"
    /\ cycle = 0
    /\ scheduled = FALSE
    /\ active = 0
    /\ due = FALSE
    /\ inflight = FALSE
    /\ interrupted = FALSE
    /\ served = 0
    /\ seenFile \in {{}} \cup { s \in SUBSET OldIds : Cardinality(s) = SeenCap }
    /\ insertedAt = [id \in seenFile |-> 0]
    /\ torn = FALSE
    /\ ClearedLocals
    /\ errorNotes = 0
    /\ attempted = {}

(***************************************************************************)
(* Scheduler: start_scheduler runs one check at once, then polls           *)
(* schedule.run_pending in the same thread.                                *)
(***************************************************************************)
\* variant: the job is started whenever it is due, in a thread of its own
SchedulerThreaded == pc \in {"idle", "fetch", "dedup", "notify", "done"}

\* run_pending is called from the while loop of start_scheduler only, so the
\* main thread is between two checks
SchedulerWaiting == pc = "idle"

BeginRunCheck(byScheduler) ==
    /\ cycle < MaxCycles
    /\ cycle' = cycle + 1
    /\ scheduled' = byScheduler
    /\ active' = active + 1
    /\ pc' = "fetch"
    /\ srcIdx' = 1
    /\ UNCHANGED <<proc, due, raised, filteredBy, all_internships, platform_stats>>
    /\ UNCHANGED <<config, probe, history, net, store, dedupLocals, notifyLocals, served, attempted>>

StartInitial ==
    /\ proc = "alive"
    /\ pc = "start"
    /\ BeginRunCheck(FALSE)

RunPending ==
    /\ proc = "alive"
    /\ SchedulerWaiting
    /\ due
    /\ BeginRunCheck(TRUE)

Tick ==
    /\ proc = "alive"
    /\ ~due
    /\ due' = TRUE
    /\ UNCHANGED <<proc, pc, cycle, scheduled, active>>
    /\ UNCHANGED <<config, probe, history, net, store, fetchLocals, dedupLocals, notifyLocals, served, attempted>>

HealthCheck ==
    /\ proc = "alive"
    /\ pc # "main"
    /\ render
    /\ served < MaxServed
    /\ served' = served + 1
    /\ UNCHANGED <<config, probe, history, sched, net, store, fetchLocals, dedupLocals, notifyLocals, attempted>>

(***************************************************************************)
(* Network calls: requests.get of a scraper, requests.post of a send, of   *)
(* the summary and of the error notification block the main thread.        *)
(***************************************************************************)
StartCall ==
    /\ proc = "alive"
    /\ pc \in {"fetch", "notify", "error"}
    /\ ~inflight
    /\ inflight' = TRUE
    /\ UNCHANGED interrupted
    /\ UNCHANGED <<config, probe, history, sched, store, fetchLocals, dedupLocals, notifyLocals, served, attempted>>

CallReturns ==
    /\ inflight
    /\ inflight' = FALSE
    /\ UNCHANGED interrupted

(***************************************************************************)
(* run_check of main.py                                                    *)
(***************************************************************************)
\* variant: the batch is deduplicated after each source
AfterSourceEach(i) == "dedup"

\* get_new_internships is the statement after the for loop over self.scrapers
AfterSource(i) == IF i = Len(scrapers) THEN "dedup" ELSE "fetch"

\* variant: the failure of one source ends the loop over the sources
AfterRaiseAborts(i) == "dedup"

\* the except clause inside the loop logs, records zero stats and lets the loop go on
AfterRaise(i) == AfterSource(i)

\* the pages a site can show: any listings, or those of the three-listing scenario
ScenarioFetch == 3

ScenarioCards(platform) ==
    CardsOf(platform)
        \cup { Card(<<"Z">>, <<"A","i">>, <<"R">>, <<"3">>, "u4"),
               Card(<<"Z">>, <<"H","R">>, <<"R">>, <<"3">>, "u5"),
               Card(<<"Z">>, <<"M","L">>, <<"R">>, <<"3">>, NoUrl) }

Injective(f) == \A a, b \in DOMAIN f : f[a] = f[b] => a = b

\* pages of ScenarioFetch different listings of which all but one are of interest
ScenarioResults(platform) ==
    { page \in { [k \in 1..ScenarioFetch |-> ParseCard(platform, cs[k])] :
                    cs \in [1..ScenarioFetch -> ScenarioCards(platform)] } :
        /\ Injective(page)
        /\ Len(filter_by_domain(page)) = ScenarioFetch - 1 }

PagesOf(name, pages) ==
    IF pages = "scenario" THEN ScenarioResults(name) ELSE FetchResults(name)

\* one turn of the loop over self.scrapers
SourceStep(pages) ==
    /\ proc = "alive"
    /\ program = "main"
    /\ pc = "fetch"
    /\ srcIdx <= Len(scrapers)
    /\ CallReturns
    /\ LET name == scrapers[srcIdx] IN
        \/ \E raw_internships \in PagesOf(name, pages) :
            LET filtered_internships == filter_by_domain(raw_internships) IN
            /\ all_internships' = all_internships \o filtered_internships
            /\ platform_stats' = (name :> [found |-> Len(raw_internships),
                                           filtered |-> Len(filtered_internships),
                                           new |-> 0]) @@ platform_stats
            /\ filteredBy' = (name :> filtered_internships) @@ filteredBy
            /\ UNCHANGED raised
            /\ pc' = AfterSource(srcIdx)
        \/ /\ platform_stats' = (name :> ZeroStats) @@ platform_stats
           /\ raised' = raised \cup {name}
           /\ UNCHANGED <<all_internships, filteredBy>>
           /\ pc' = AfterRaise(srcIdx)
    /\ srcIdx' = srcIdx + 1
    /\ UNCHANGED <<proc, cycle, scheduled, active, due>>
    /\ UNCHANGED <<config, probe, history, store, dedupLocals, notifyLocals, served, attempted>>

ProcessSource == SourceStep("any")

\* variant: every new posting is counted for every platform
CountNewOfAll(new, platform) == Len(new)

\* platform_stats[platform]['new'] += 1 for each new posting of the platform
CountNew(new, platform) == Len(SelectSeq(new, LAMBDA i : i.platform = platform))

Deduplicate ==
    /\ proc = "alive"
    /\ program = "main"
    /\ pc = "dedup"
    /\ get_new_internships(all_internships)
    /\ platform_stats' = [p \in DOMAIN platform_stats |->
            [platform_stats[p] EXCEPT !.new = @ + CountNew(new_internships', p)]]
    /\ pc' = "notify"
    /\ sendIdx' = 1
    /\ UNCHANGED <<proc, cycle, scheduled, active, due>>
    /\ UNCHANGED <<srcIdx, raised, filteredBy, all_internships>>
    /\ UNCHANGED <<config, probe, history, net, sent_count, cycleSends, summaries, errorNotes, served, attempted>>

\* the url of reply_markup the bot.py sender uses for a posting without link
FallbackUrl == "https://internship.aicte-india.org"

\* main.py: data['reply_markup'] is set only if apply_url
MainKeyboard(internship) ==
    IF internship.details_url # NoUrl THEN {internship.details_url} ELSE {}

\* bot.py: reply_markup is part of data, with apply_url or the site's address
BotKeyboard(internship) ==
    {IF internship.details_url # NoUrl THEN internship.details_url ELSE FallbackUrl}

\* the urls of the buttons of the request send_telegram_message_with_apply posts
Keyboard(internship) ==
    IF program = "main" THEN MainKeyboard(internship) ELSE BotKeyboard(internship)

\* variant: a failed send is tried again
AfterSendRetry(ok) == IF ok THEN sendIdx + 1 ELSE sendIdx

\* the for loop moves to the next new posting whether the send succeeded or not
AfterSend(ok) == sendIdx + 1

SendNotification ==
    /\ proc = "alive"
    /\ pc = "notify"
    /\ sendIdx <= Len(new_internships)
    /\ CallReturns
    /\ \E ok \in BOOLEAN :
        /\ cycleSends' = Append(cycleSends, [id |-> new_internships[sendIdx].id, ok |-> ok,
                                             keyboard |-> Keyboard(new_internships[sendIdx])])
        /\ sent_count' = IF ok THEN sent_count + 1 ELSE sent_count
        /\ sendIdx' = AfterSend(ok)
    /\ attempted' = attempted \cup {new_internships[sendIdx].id}
    /\ UNCHANGED <<summaries, errorNotes>>
    /\ UNCHANGED <<config, probe, history, sched, store, fetchLocals, dedupLocals, served>>

RECURSIVE SumOver(_, _, _)
SumOver(stats, keys, field) ==
    IF keys = {} THEN 0
    ELSE LET k == CHOOSE x \in keys : TRUE
         IN  (IF field = "found" THEN stats[k].found ELSE stats[k].filtered)
             + SumOver(stats, keys \ {k}, field)

\* variant: the filtered total repeats the found total
SummaryOfUnfiltered(stats, total_new) ==
    LET shown == { p \in DOMAIN stats : stats[p].found > 0 } IN
    [platforms |-> [p \in shown |-> stats[p]],
     total_found |-> SumOver(stats, shown, "found"),
     total_filtered |-> SumOver(stats, shown, "found"),
     total_new |-> total_new]

SummaryOf(stats, total_new) ==
    LET shown == { p \in DOMAIN stats : stats[p].found > 0 } IN
    [platforms |-> [p \in shown |-> stats[p]],
     total_found |-> SumOver(stats, shown, "found"),
     total_filtered |-> SumOver(stats, shown, "filtered"),
     total_new |-> total_new]

\* variant: the summary does not wait for the end of the loop over the new postings
NotificationsSkipped == sendIdx >= 1

\* send_summary is the statement after the for loop over new_internships
NotificationsDone == sendIdx > Len(new_internships)

\* variant: a summary that could not be sent is a failure of the check
AfterSummaryRaises(ok) == IF ok THEN "done" ELSE "error"

\* the except clause of send_summary logs the error and the call returns
AfterSummary(ok) == "done"

SendSummary ==
    /\ proc = "alive"
    /\ program = "main"
    /\ pc = "notify"
    /\ NotificationsDone
    /\ CallReturns
    /\ \E ok \in BOOLEAN :
        /\ summaries' = Append(summaries, [ok |-> ok, keyboard |-> {},
                                           text |-> SummaryOf(platform_stats, sent_count)])
        /\ pc' = AfterSummary(ok)
    /\ UNCHANGED <<proc, cycle, scheduled, active, due>>
    /\ UNCHANGED <<sendIdx, sent_count, cycleSends, errorNotes>>
    /\ UNCHANGED <<config, probe, history, store, fetchLocals, dedupLocals, served, attempted>>

\* run_check returns to start_scheduler
ReturnFromCheck ==
    /\ proc = "alive"
    /\ pc = "done"
    /\ pc' = "idle"
    /\ active' = active - 1
    /\ due' = IF scheduled THEN FALSE ELSE due
    /\ ClearLocals
    /\ UNCHANGED <<proc, cycle, scheduled>>
    /\ UNCHANGED <<config, probe, net, store, served, attempted, errorNotes>>

FinishCycle ==
    /\ ReturnFromCheck
    /\ Logged("completed")

(***************************************************************************)
(* Failures that leave run_check or the constructor, and shutdown.         *)
(***************************************************************************)
\* variant: a statement after send_summary can raise as well
EscapesAfterSummary == pc \in {"dedup", "notify", "done"}

\* the statements of the outer try that are in no inner try: the calls of
\* get_new_internships and of the senders, the stats update, the loop itself;
\* send_summary catches what its post raises and only logging follows it
EscapesRunCheck == pc \in {"dedup", "notify"}

TopLevelFailure ==
    /\ proc = "alive"
    /\ program = "main"
    /\ EscapesRunCheck
    /\ ~inflight
    /\ pc' = "error"
    /\ UNCHANGED <<proc, cycle, scheduled, active, due>>
    /\ UNCHANGED <<config, probe, history, net, store, fetchLocals, dedupLocals, notifyLocals, served, attempted>>


\* the except clause of run_check ends in raise; start_scheduler does not
\* catch, main logs the error and calls sys.exit(1)
AfterError == "exit1"

\* the process is gone: nothing of its memory is left
ProcessGone(status, end) ==
    /\ proc' = status
    /\ pc' = "exited"
    /\ inflight' = FALSE
    /\ active' = 0
    /\ scheduled' = FALSE
    /\ due' = FALSE
    /\ served' = 0
    /\ ClearLocals
    /\ IF InCycle THEN Logged(end) ELSE UNCHANGED history
    /\ UNCHANGED <<cycle, config, probe, attempted>>

\* the seen file stays as it is
ProcessExit(status) ==
    /\ ProcessGone(status, "aborted")
    /\ UNCHANGED store

Raise == ProcessExit(AfterError)

ErrorNotify ==
    /\ proc = "alive"
    /\ pc = "error"
    /\ inflight
    /\ errorNotes' = errorNotes + 1
    /\ UNCHANGED interrupted
    \* the post returns or raises: the handler goes on to raise either way
    /\ \E ok \in BOOLEAN : Raise

\* SystemExit raised by the handler leaves the process with status 0, except
\* inside the error notification of main.py, whose bare except swallows it
\* before the pending exception is raised again
ShutdownStatus ==
    IF program = "main" /\ pc = "error" /\ inflight THEN AfterError ELSE "exit0"

\* signal_handler: sys.exit(0) in the main thread, wherever it is; a blocking
\* request is abandoned by the exception
Shutdown ==
    /\ proc = "alive"
    /\ interrupted' = inflight
    /\ ProcessExit(ShutdownStatus)
    /\ UNCHANGED errorNotes

\* the signal arrives, or the process is killed, inside save_seen_internships
\* after open(..., 'w') has emptied the file and before json.dump has written
\* the whole list: what is left is not a JSON document
ShutdownInSave ==
    /\ proc = "alive"
    /\ pc = "dedup"
    /\ seenFile' = {}
    /\ insertedAt' = <<>>
    /\ torn' = TRUE
    /\ ProcessGone("exit0", "torn")
    /\ UNCHANGED <<interrupted, errorNotes>>

(***************************************************************************)
(* Construction: __init__ ends in _validate_config, whose ValueError is    *)
(* caught by main, which exits with status 1 before start_scheduler.       *)
(***************************************************************************)
\* variant: nothing is required of the configuration
ValidConfigUnchecked == TRUE

ValidConfig ==
    /\ hasToken
    /\ hasChat
    /\ program = "main" => scrapers # <<>>

Construct ==
    /\ proc = "alive"
    /\ pc = "main"
    /\ IF ValidConfig
       THEN /\ pc' = "start"
            /\ UNCHANGED <<proc, cycle, scheduled, active, due>>
            /\ UNCHANGED <<net, fetchLocals, dedupLocals, notifyLocals, served>>
       ELSE /\ ProcessExit("exit1")
            /\ UNCHANGED <<interrupted, errorNotes>>
    /\ UNCHANGED <<config, probe, history, store, attempted>>

(***************************************************************************)
(* run_check of bot.py                                                     *)
(***************************************************************************)
BotProcess ==
    /\ proc = "alive"
    /\ program = "bot"
    /\ pc = "fetch"
    /\ CallReturns
    /\ \/ \E extracted \in BotFetchResults :
            /\ all_internships' = extracted
            /\ filteredBy' = (AICTE :> filter_by_domain(extracted)) @@ filteredBy
            /\ pc' = "dedup"
       \/ /\ pc' = "error"
          /\ UNCHANGED <<all_internships, filteredBy>>
    /\ UNCHANGED <<proc, cycle, scheduled, active, due>>
    /\ UNCHANGED <<srcIdx, raised, platform_stats>>
    /\ UNCHANGED <<config, probe, history, store, dedupLocals, notifyLocals, served, attempted>>

BotDeduplicate ==
    /\ proc = "alive"
    /\ program = "bot"
    /\ pc = "dedup"
    /\ get_new_internships(filteredBy[AICTE])
    /\ pc' = "notify"
    /\ sendIdx' = 1
    /\ UNCHANGED <<proc, cycle, scheduled, active, due>>
    /\ UNCHANGED <<fetchLocals>>
    /\ UNCHANGED <<config, probe, history, net, sent_count, cycleSends, summaries, errorNotes, served, attempted>>

\* send_summary of bot.py formats the totals and then sends a placeholder
\* posting through send_telegram_message_with_apply
BotSummaryPosting == [name |-> <<"S","u","m","m","a","r","y">>, details_url |-> NoUrl]

\* the text send_summary of bot.py formats from its three arguments
BotSummaryMessage(total_found, filtered, new_count) ==
    [total_found |-> total_found, filtered |-> filtered, new_count |-> new_count]

BotSendSummary ==
    /\ proc = "alive"
    /\ program = "bot"
    /\ pc = "notify"
    /\ NotificationsDone
    /\ CallReturns
    /\ \E ok \in BOOLEAN :
        summaries' = Append(summaries, [ok |-> ok, keyboard |-> Keyboard(BotSummaryPosting),
                                        text |-> BotSummaryPosting])
    /\ pc' = "done"
    /\ UNCHANGED <<proc, cycle, scheduled, active, due>>
    /\ UNCHANGED <<sendIdx, sent_count, cycleSends, errorNotes>>
    /\ UNCHANGED <<config, probe, history, store, fetchLocals, dedupLocals, served, attempted>>

Next ==
    \/ Construct
    \/ StartInitial
    \/ RunPending
    \/ Tick
    \/ HealthCheck
    \/ StartCall
    \/ ProcessSource
    \/ Deduplicate
    \/ SendNotification
    \/ SendSummary
    \/ FinishCycle
    \/ TopLevelFailure
    \/ ErrorNotify
    \/ Shutdown
    \/ ShutdownInSave
    \/ BotProcess
    \/ BotDeduplicate
    \/ BotSendSummary

Spec == Init /\ [][Next]_vars

(***************************************************************************)
(* get_new_internships called repeatedly on one batch, as a test of the    *)
(* deduplication does: each call loads, evaluates and persists.            *)
(***************************************************************************)
MaxBatch == 2
MaxCalls == 2

FilteredPostings ==
    IF program = "main"
    THEN { i \in { ParseCard(AICTE, c) : c \in AICTECards }
                  \cup { ParseCard(Internshala, c) : c \in InternshalaCards } :
             MatchesDomain(i) }
    ELSE { i \in { BotParseCard(c) : c \in AICTECards } : MatchesDomain(i) }

DedupInit ==
    /\ program \in {"main", "bot"}
    /\ render = FALSE
    /\ interests = preferred_domains
    /\ callArg = <<>>
    /\ callResult = <<>>
    /\ keepHistory = FALSE
    /\ run = 0
    /\ history = <<>>
    /\ hasToken = TRUE
    /\ hasChat = TRUE
    /\ scrapers = IF program = "main" THEN <<AICTE, Internshala>> ELSE <<AICTE>>
    /\ proc = "alive"
    /\ pc = "dedup"
    /\ cycle = 0
    /\ scheduled = FALSE
    /\ active = 1
    /\ due = FALSE
    /\ inflight = FALSE
    /\ interrupted = FALSE
    /\ served = 0
    /\ seenFile \in { s \in SUBSET KnownIds : Cardinality(s) <= SeenCap }
    /\ insertedAt = [id \in seenFile |-> 0]
    /\ torn = FALSE
    /\ ClearedLocals
    /\ errorNotes = 0
    /\ attempted = {}

DedupPick ==
    /\ cycle = 0
    /\ all_internships = <<>>
    /\ all_internships' \in SeqsUpTo(FilteredPostings, MaxBatch) \ {<<>>}
    /\ UNCHANGED <<srcIdx, raised, filteredBy, platform_stats>>
    /\ UNCHANGED <<config, probe, history, sched, net, store, dedupLocals, notifyLocals, served, attempted>>

DedupCall ==
    /\ cycle < MaxCalls
    /\ all_internships # <<>>
    /\ cycle' = cycle + 1
    /\ get_new_internships(all_internships)
    /\ UNCHANGED <<proc, pc, scheduled, active, due>>
    /\ UNCHANGED <<config, probe, history, net, fetchLocals, notifyLocals, served, attempted>>

DedupNext == DedupPick \/ DedupCall

DedupSpec == DedupInit /\ [][DedupNext]_vars

(***************************************************************************)
(* filter_by_domain and the parsers called on their own.  The state is     *)
(* that of a constructed bot between two cycles.                           *)
(***************************************************************************)
MaxFilterInput == 2

InterestLists ==
    { <<>>,
      preferred_domains,
      << <<"M","L">> >>,
      << <<"z","z">>, <<"l"," ","x">> >> }

WithDescription(internship, text) == ("description" :> text) @@ internship

FilterCards ==
    AICTECards \cup { Card(<<"A","i">>, <<"H","R">>, <<"P">>, <<"1">>, "u3") }

FilterPostings ==
    LET parsed == IF program = "main"
                  THEN { ParseCard(AICTE, c) : c \in FilterCards }
                  ELSE { BotParseCard(c) : c \in FilterCards }
        plain == CHOOSE i \in parsed : i.name = <<"H","R">> /\ i.company = <<"X">>
    IN  parsed \cup {WithDescription(plain, <<"u","s","e","s"," ","M","l">>)}

ProbeInit(at) ==
    /\ program \in {"main", "bot"}
    /\ render = FALSE
    /\ hasToken = TRUE
    /\ hasChat = TRUE
    /\ scrapers = IF program = "main" THEN <<AICTE, Internshala>> ELSE <<AICTE>>
    /\ callArg = <<>>
    /\ callResult = <<>>
    /\ keepHistory = FALSE
    /\ run = 0
    /\ history = <<>>
    /\ proc = "alive"
    /\ pc = at
    /\ cycle = 0
    /\ scheduled = FALSE
    /\ active = 0
    /\ due = FALSE
    /\ inflight = FALSE
    /\ interrupted = FALSE
    /\ served = 0
    /\ seenFile \in {{}} \cup { f \in SUBSET OldIds : Cardinality(f) = SeenCap }
    /\ insertedAt = [id \in seenFile |-> 0]
    /\ torn = FALSE
    /\ ClearedLocals
    /\ errorNotes = 0
    /\ attempted = {}

ProbeFrame ==
    /\ UNCHANGED <<keepHistory, run, history>>
    /\ UNCHANGED <<config, store, fetchLocals, dedupLocals, notifyLocals, served, attempted>>
    /\ UNCHANGED <<net, proc, cycle, scheduled, active, due>>

FilterInit ==
    /\ interests \in InterestLists
    /\ ProbeInit("pick")

FilterPick ==
    /\ pc = "pick"
    /\ callArg' \in SeqsUpTo(FilterPostings, MaxFilterInput)
    /\ pc' = "call"
    /\ UNCHANGED callResult
    /\ ProbeFrame

FilterCall ==
    /\ pc = "call"
    /\ callResult' = filter_by_domain(callArg)
    /\ pc' = "returned"
    /\ UNCHANGED callArg
    /\ ProbeFrame

FilterNext == FilterPick \/ FilterCall

FilterSpec == FilterInit /\ [][FilterNext]_vars

\* listings that differ in one field or another
IdCards ==
    { Card(company, <<"M","L">>, location, posted_on, href) :
        company \in {<<"X">>, <<"Y"," ","Z">>},
        location \in {<<"P">>, <<"Q">>},
        posted_on \in {<<"1">>, <<"2">>},
        href \in {"u1", NoUrl} }

\* the parser of the pipeline applied to one card of a page
ParsedId(platform, card) ==
    IF program = "main" THEN ParseCard(platform, card).id ELSE BotParseCard(card).id

IdInit ==
    /\ interests = preferred_domains
    /\ ProbeInit("pick")

IdPick ==
    /\ pc = "pick"
    /\ \E platform \in (IF program = "main" THEN Platforms ELSE {AICTE}) :
       \E first \in IdCards, second \in IdCards :
            callArg' = [platform |-> platform, first |-> first, second |-> second]
    /\ pc' = "call"
    /\ UNCHANGED callResult
    /\ ProbeFrame

IdCall ==
    /\ pc = "call"
    /\ callResult' = <<ParsedId(callArg.platform, callArg.first),
                       ParsedId(callArg.platform, callArg.second)>>
    /\ pc' = "parsed"
    /\ UNCHANGED callArg
    /\ ProbeFrame

IdNext == IdPick \/ IdCall

IdSpec == IdInit /\ [][IdNext]_vars

(***************************************************************************)
(* One run of main.py with one source over several cycles that complete,   *)
(* the outcome of each cycle recorded in detail.                           *)
(***************************************************************************)
FinishCycleNoted ==
    /\ ReturnFromCheck
    /\ Noted

CyclesInit ==
    /\ program = "main"
    /\ render = FALSE
    /\ interests = preferred_domains
    /\ callArg = <<>>
    /\ callResult = <<>>
    /\ keepHistory = TRUE
    /\ run = 0
    /\ history = <<>>
    /\ hasToken = TRUE
    /\ hasChat = TRUE
    /\ scrapers = <<AICTE>>
    /\ proc = "alive"
    /\ pc = "start"
    /\ cycle = 0
    /\ scheduled = FALSE
    /\ active = 0
    /\ due = FALSE
    /\ inflight = FALSE
    /\ interrupted = FALSE
    /\ served = 0
    /\ seenFile \in { f \in SUBSET OldIds : Cardinality(f) <= SeenCap }
    /\ insertedAt = [id \in seenFile |-> 0]
    /\ torn = FALSE
    /\ ClearedLocals
    /\ errorNotes = 0
    /\ attempted = {}

CyclesNext ==
    \/ StartInitial
    \/ Tick
    \/ RunPending
    \/ StartCall
    \/ ProcessSource
    \/ Deduplicate
    \/ SendNotification
    \/ SendSummary
    \/ FinishCycleNoted

CyclesSpec == CyclesInit /\ [][CyclesNext]_vars

(***************************************************************************)
(* The fetch of one source called on its own.  Each request the adapter    *)
(* makes is answered by a page of cards or fails in transport; a page can  *)
(* hold a card on which the parser raises.                                 *)
(***************************************************************************)
MaxPage == 2

\* self.preferred_domains[:3]
SearchLimit == 3

\* a card element on which a call of the parser raises
BrokenCard == Card(<<>>, <<>>, <<>>, <<>>, "raises")

ParseRaises(card) == card = BrokenCard

PageCards(platform) == CardsOf(platform) \cup {BrokenCard}

Response(ok, cards) == [ok |-> ok, cards |-> cards]

\* requests.post / session.get raises, or raise_for_status does
TransportFailure == Response(FALSE, <<>>)

Responses(platform) ==
    {TransportFailure}
        \cup { Response(TRUE, cards) : cards \in SeqsUpTo(PageCards(platform), MaxPage) }

\* variant: the first card that raises ends the loop over the cards
ParsableUntilRaise(cards) ==
    IF \E k \in 1..Len(cards) : ParseRaises(cards[k])
    THEN SubSeq(cards, 1, (CHOOSE k \in 1..Len(cards) :
                            /\ ParseRaises(cards[k])
                            /\ \A j \in 1..(k - 1) : ~ParseRaises(cards[j])) - 1)
    ELSE cards

\* for card in ...: try: ... internships.append(...) except Exception: continue
Parsable(cards) == SelectSeq(cards, LAMBDA card : ~ParseRaises(card))

parse_html(platform, cards) ==
    LET parsed == Parsable(cards)
    IN  [k \in 1..Len(parsed) |-> ParseCard(platform, parsed[k])]

extract_internships(cards) ==
    LET parsed == Parsable(cards)
    IN  [k \in 1..Len(parsed) |-> BotParseCard(parsed[k])]

\* both except clauses of _search_domain return []
search_domain(response) ==
    IF response.ok THEN parse_html(Internshala, response.cards) ELSE <<>>

RequestsOf(platform) ==
    IF platform = AICTE THEN 1 ELSE Min(SearchLimit, Len(interests))

RECURSIVE SearchAll(_)
SearchAll(responses) ==
    IF responses = <<>> THEN <<>>
    ELSE search_domain(Head(responses)) \o SearchAll(Tail(responses))

\* what the caller gets: the except clause of AICTEScraper.fetch_internships
\* logs and returns []; IntershalaScraper.fetch_internships joins the lists of
\* its searches
fetch_internships(platform, responses) ==
    IF platform = AICTE
    THEN IF responses[1].ok THEN parse_html(AICTE, responses[1].cards) ELSE <<>>
    ELSE SearchAll(responses)

FetchInit ==
    /\ interests = preferred_domains
    /\ ProbeInit("pick")

\* bot.py calls extract_internships on a page fetch_webpage has returned
FetchPick ==
    /\ pc = "pick"
    /\ \E platform \in (IF program = "main" THEN Platforms ELSE {AICTE}) :
       \E responses \in [1..RequestsOf(platform) -> Responses(platform)] :
            /\ program = "bot" => responses[1].ok
            /\ callArg' = [platform |-> platform, responses |-> responses]
    /\ pc' = "call"
    /\ UNCHANGED callResult
    /\ ProbeFrame

FetchCall ==
    /\ pc = "call"
    /\ callResult' = IF program = "main"
                     THEN fetch_internships(callArg.platform, callArg.responses)
                     ELSE extract_internships(callArg.responses[1].cards)
    /\ pc' = "fetched"
    /\ UNCHANGED callArg
    /\ ProbeFrame

FetchNext == FetchPick \/ FetchCall

FetchSpec == FetchInit /\ [][FetchNext]_vars

(***************************************************************************)
(* The service over several runs: the platform starts the process again    *)
(* after it has exited, and the outcome of each cycle is recorded.  The     *)
(* service has been up long enough for the seen file to be full.  Each run *)
(* is followed up to the end of its first check.                           *)
(***************************************************************************)
MaxRestarts == 2

Restart ==
    /\ proc # "alive"
    /\ run < MaxRestarts
    /\ run' = run + 1
    /\ proc' = "alive"
    /\ pc' = "main"
    /\ cycle' = 0
    /\ interrupted' = FALSE
    /\ UNCHANGED <<callArg, callResult, keepHistory, history, inflight, scheduled, active, due>>
    /\ UNCHANGED <<config, store, fetchLocals, dedupLocals, notifyLocals, served, attempted>>

HistoryInit ==
    /\ program = "main"
    /\ render = FALSE
    /\ interests = preferred_domains
    /\ callArg = <<>>
    /\ callResult = <<>>
    /\ keepHistory = TRUE
    /\ run = 0
    /\ history = <<>>
    /\ hasToken = TRUE
    /\ hasChat = TRUE
    /\ scrapers = <<AICTE>>
    /\ proc = "alive"
    /\ pc = "main"
    /\ cycle = 0
    /\ scheduled = FALSE
    /\ active = 0
    /\ due = FALSE
    /\ inflight = FALSE
    /\ interrupted = FALSE
    /\ served = 0
    /\ seenFile \in { f \in SUBSET OldIds : Cardinality(f) = SeenCap }
    /\ insertedAt = [id \in seenFile |-> 0]
    /\ torn = FALSE
    /\ ClearedLocals
    /\ errorNotes = 0
    /\ attempted = {}

HistoryNext ==
    \/ Construct
    \/ StartInitial
    \/ StartCall
    \/ ProcessSource
    \/ Deduplicate
    \/ SendNotification
    \/ SendSummary
    \/ FinishCycle
    \/ Shutdown
    \/ ShutdownInSave
    \/ Restart

HistorySpec == HistoryInit /\ [][HistoryNext]_vars

(***************************************************************************)
(* One cycle of main.py with a single source enabled, whose page shows     *)
(* three listings, two of them of interest.                                *)
(***************************************************************************)
ScenarioInit ==
    /\ program = "main"
    /\ render = FALSE
    /\ interests = preferred_domains
    /\ callArg = <<>>
    /\ callResult = <<>>
    /\ keepHistory = FALSE
    /\ run = 0
    /\ history = <<>>
    /\ hasToken = TRUE
    /\ hasChat = TRUE
    /\ scrapers \in {<<AICTE>>, <<Internshala>>}
    /\ proc = "alive"
    /\ pc = "start"
    /\ cycle = 0
    /\ scheduled = FALSE
    /\ active = 0
    /\ due = FALSE
    /\ inflight = FALSE
    /\ interrupted = FALSE
    /\ served = 0
    /\ seenFile \in {{}} \cup { f \in SUBSET OldIds : Cardinality(f) = SeenCap }
    /\ insertedAt = [id \in seenFile |-> 0]
    /\ torn = FALSE
    /\ ClearedLocals
    /\ errorNotes = 0
    /\ attempted = {}

ScenarioSource == SourceStep("scenario")

ScenarioNext ==
    \/ StartInitial
    \/ StartCall
    \/ ScenarioSource
    \/ Deduplicate
    \/ SendNotification
    \/ SendSummary
    \/ FinishCycle

ScenarioSpec == ScenarioInit /\ [][ScenarioNext]_vars

(***************************************************************************)
(* Properties.                                                             *)
(***************************************************************************)
Occurrences(internships, id) == Cardinality({ k \in 1..Len(internships) : internships[k].id = id })

Deduplicated == pc \in {"notify", "done"}

\* C1: within one call of get_new_internships, an id of the batch that is
\* absent from the loaded seen set is returned as new exactly once, however
\* many postings of the batch carry it.
C1_FirstOccurrenceOnly ==
    Deduplicated =>
        \A id \in IdsOf(Batch) \ loaded : Occurrences(new_internships, id) = 1

\* C2: get_new_internships called twice in succession on the same batch, both
\* calls loading and persisting, returns no new posting from the second call.
C2_SecondPassEmpty ==
    (cycle = 2 /\ loadOk /\ saveOk) => new_internships = <<>>

RECURSIVE ConcatFiltered(_)
ConcatFiltered(k) ==
    IF k = 0 THEN <<>>
    ELSE ConcatFiltered(k - 1)
         \o (IF scrapers[k] \in DOMAIN filteredBy THEN filteredBy[scrapers[k]] ELSE <<>>)

SentIds == { cycleSends[k].id : k \in 1..Len(cycleSends) }

\* C3: when the processing of a source raised in run_check of main.py, its
\* stats are found 0, filtered 0, new 0; once the loop over the sources is
\* over every other enabled source has been fetched and filtered and its
\* filtered postings are in the deduplicated batch; and when the cycle
\* completes every such posting whose id was not in the loaded seen set has
\* had a send attempt in this cycle.
C3_SourceIsolation ==
    (program = "main" /\ raised # {}) =>
        /\ \A p \in raised : platform_stats[p] = ZeroStats
        /\ pc \in {"dedup", "notify", "done"} =>
            /\ \A k \in 1..Len(scrapers) :
                 scrapers[k] \notin raised => scrapers[k] \in DOMAIN filteredBy
            /\ all_internships = ConcatFiltered(Len(scrapers))
        /\ pc = "done" =>
            \A p \in DOMAIN filteredBy :
                IdsOf(filteredBy[p]) \ loaded \subseteq SentIds

C3_Witness ==
    /\ program = "main"
    /\ pc = "done"
    /\ raised = {AICTE}
    /\ scrapers = <<AICTE, Internshala>>
    /\ Len(cycleSends) >= 1

\* C4: the number of ids in the seen file never exceeds the cap of the program.
C4_SeenFileBounded == Cardinality(seenFile) <= SeenCap

C4_Witness ==
    /\ Deduplicated
    /\ saveOk
    /\ Cardinality(loaded \cup IdsOf(new_internships)) > SeenCap
    /\ Cardinality(seenFile) = SeenCap

\* C5: a save that has to truncate keeps the most recently inserted ids: the
\* ids inserted in this cycle (when they fit the cap) are all in the file, and
\* no id is evicted while an id inserted before it is retained.
C5_KeepsMostRecent ==
    [][ (pc = "dedup" /\ pc' = "notify" /\ saveOk') =>
          LET newIds == IdsOf(new_internships')
              evicted == (loaded' \cup newIds) \ seenFile'
              InsertedIn(id) == IF id \in newIds THEN cycle ELSE insertedAt[id]
          IN  /\ Cardinality(newIds) <= SeenCap => newIds \subseteq seenFile'
              /\ \A e \in evicted : \A r \in seenFile' : InsertedIn(r) >= InsertedIn(e) ]_vars

C7_NoSilentLoss ==
    pc \in {"idle", "exited"} =>
        \A id \in seenFile : insertedAt[id] = 0 \/ id \in attempted

\* C8: in run_check of main.py the send attempts of a cycle are the new
\* postings, one attempt each, in order, whatever the outcome of each send.
C8_OneAttemptEach ==
    (program = "main" /\ Deduplicated) =>
        /\ Len(cycleSends) = sendIdx - 1
        /\ Len(cycleSends) <= Len(new_internships)
        /\ \A k \in 1..Len(cycleSends) : cycleSends[k].id = new_internships[k].id
        /\ pc = "done" => Len(cycleSends) = Len(new_internships)

C8_Witness ==
    /\ program = "main"
    /\ pc = "done"
    /\ Len(cycleSends) = 2
    /\ ~cycleSends[1].ok
    /\ cycleSends[2].ok

\* C9: a cycle of run_check of main.py without top-level failure sends exactly
\* one summary, after the send attempts for all its new postings.
C9_OneSummaryAfterSends ==
    program = "main" =>
        /\ Len(summaries) <= 1
        /\ summaries # <<>> => Len(cycleSends) = Len(new_internships)
        /\ pc = "done" => Len(summaries) = 1
        /\ pc \in {"fetch", "dedup"} => summaries = <<>>

C9_Witness ==
    /\ program = "main"
    /\ pc = "done"
    /\ Len(summaries) = 1
    /\ Len(cycleSends) >= 1

\* C10: at most one run_check is in progress at any time.
C10_NoOverlap ==
    /\ active <= 1
    /\ InCycle => active = 1
    /\ pc \in {"main", "start", "idle", "exited"} => active = 0

C10_Witness ==
    /\ active = 1
    /\ pc = "notify"
    /\ due
    /\ render
    /\ served >= 1

\* C11: a shutdown signal that arrives while a network call of the cycle is
\* in flight lets the call finish: the process never exits having abandoned
\* a call that had started and not returned.
C11_CallNotCutShort == ~interrupted


MissingConfig == ~hasToken \/ ~hasChat \/ (program = "main" /\ Len(scrapers) = 0)

\* C17: with the Telegram token or the chat id missing, or with no source
\* enabled, the process never leaves construction except by exiting: no cycle
\* starts, no request is made, the seen file is not written and no message is
\* sent.
C17_InvalidConfigNeverRuns ==
    MissingConfig =>
        /\ pc \in {"main", "exited"}
        /\ proc \in {"alive", "exit0", "exit1"}
        /\ cycle = 0
        /\ ~inflight /\ ~interrupted
        /\ attempted = {} /\ cycleSends = <<>> /\ summaries = <<>> /\ errorNotes = 0
        /\ \A id \in seenFile : insertedAt[id] = 0

C17_Witness == MissingConfig /\ proc = "exit1" /\ pc = "exited"


SendsPending == pc = "notify" /\ sendIdx <= Len(new_internships)

\* C20: a cycle that runs to completion has loaded the seen file once and
\* written it once, and the write closes the cycle: as long as a new posting
\* of the cycle still waits for its send attempt, the file has not been
\* written in this cycle.
C20_LoadOnceWriteLast ==
    /\ pc = "done" => loads = 1 /\ saves = 1
    /\ SendsPending => saves = 0


\* C14: when the read of the seen file fails, load_seen_internships yields
\* the empty set and the cycle goes on to the sends with every filtered
\* posting of the cycle as a new one.
C14_ReadFailureMeansAllNew ==
    (Deduplicated /\ ~loadOk) => (loaded = {} /\ new_internships = Batch)

C14_Witness ==
    /\ pc = "notify"
    /\ sendIdx = 1
    /\ ~loadOk
    /\ IdsOf(new_internships) \cap attempted # {}


PostingText(internship) ==
    internship.name \o <<" ">> \o internship.company \o <<" ">>
        \o (IF "description" \in DOMAIN internship THEN internship.description ELSE <<>>)

TermOccurs(term, text) ==
    \E a \in 1..(Len(text) + 1) : \E b \in 0..Len(text) :
        Lower(SubSeq(text, a, b)) = Lower(term)

Interesting(internship) ==
    \E term \in { interests[d] : d \in 1..Len(interests) } :
        TermOccurs(term, PostingText(internship))

RECURSIVE InterestingOf(_)
InterestingOf(internships) ==
    IF internships = <<>> THEN <<>>
    ELSE (IF Interesting(Head(internships)) THEN <<Head(internships)>> ELSE <<>>)
         \o InterestingOf(Tail(internships))

\* C18: a call of filter_by_domain returns, in input order, exactly the
\* postings in whose name, company and description (when there is one), joined
\* by single spaces, some interest term occurs without regard to case; it
\* returns nothing when there is no interest term; and it leaves its input
\* and the seen file as they were.
C18_FilterByDomain ==
    [][(pc = "call" /\ pc' = "returned") =>
            /\ callResult' = InterestingOf(callArg)
            /\ (interests = <<>> => callResult' = <<>>)
            /\ callArg' = callArg
            /\ store' = store /\ interests' = interests]_vars

C18_Witness ==
    /\ pc = "returned"
    /\ Len(callArg) = 2
    /\ Len(callResult) = 1
    /\ "description" \in DOMAIN callResult[1]
    /\ interests = << <<"M","L">> >>
    /\ seenFile # {}


SameListing(first, second) ==
    /\ first.company = second.company
    /\ first.name = second.name
    /\ first.posted_on = second.posted_on

\* C19: in either program, two listings of one source that agree on company,
\* title and posted-on date are given the same id, whatever their location
\* and link are; in particular one listing parsed twice keeps its id.
C19_IdFromFourFields ==
    (pc = "parsed" /\ SameListing(callArg.first, callArg.second))
        => callResult[1] = callResult[2]


SentNow == { cycleSends[k].id : k \in { j \in 1..Len(cycleSends) : cycleSends[j].ok } }

\* C13: when the cycle before this one completed, notified postings and wrote
\* the seen file, and this cycle reads the file and is given only postings
\* with the ids notified then, this cycle sends no posting and its summary
\* counts 0 new.
C13_NothingNewNextCycle ==
    (keepHistory /\ pc = "done" /\ Len(history) >= 1 /\ loadOk /\ Batch # <<>>) =>
        LET prev == history[Len(history)] IN
        (prev.end = "completed" /\ prev.saved /\ IdsOf(Batch) \subseteq prev.sent) =>
            /\ cycleSends = <<>>
            /\ Len(summaries) = 1
            /\ summaries[1].text.total_new = 0

\* C15: a cycle whose write of the seen file failed still attempts a send for
\* each of its new postings and sends its summary; and when every later cycle
\* reads and writes the file, a posting notified in the cycle of the failed
\* write is notified in at most one later cycle.
C15_WriteFailureContained ==
    /\ (pc = "done" /\ ~saveOk) =>
            (Len(cycleSends) = Len(new_internships) /\ Len(summaries) = 1)
    /\ (keepHistory /\ pc = "done") =>
            LET all == Append(history, CycleEntry("completed")) IN
            \A j \in 1..Len(all) : \A id \in all[j].sent :
                (/\ all[j].end = "completed"
                 /\ ~all[j].saved
                 /\ \A k \in (j + 1)..Len(all) : all[k].saved /\ all[k].loaded)
                => Cardinality({ k \in (j + 1)..Len(all) : id \in all[k].sent }) <= 1

\* C16: in the first cycle to complete after a cycle that ended between the
\* load and the end of the write, a posting that an earlier completed cycle
\* notified, and that the seen file held when the write began, is not
\* notified again, unless it was among the postings of the cycle that ended.
C16_CrashDuplicatesBounded ==
    (keepHistory /\ pc = "done" /\ Len(history) >= 2) =>
        LET crash == history[Len(history)] IN
        crash.end = "torn" =>
            \A id \in SentNow :
                (/\ id \in crash.file
                 /\ \E j \in 1..(Len(history) - 1) :
                        history[j].end = "completed" /\ id \in history[j].sent)
                => id \in crash.batch


AllSendsSucceeded == \A k \in 1..Len(cycleSends) : cycleSends[k].ok

\* C12: a cycle that starts from an empty seen set, whose only source shows 3
\* listings of which exactly 2 are of interest, with different ids, and in
\* which every send succeeds, makes exactly 2 posting sends, one per posting
\* of interest, and then one summary send with found 3, filtered 2, new 2.
C12_ThreeFoundTwoSent ==
    (pc = "done" /\ raised = {} /\ loaded = {} /\ AllSendsSucceeded) =>
        /\ Len(cycleSends) = 2
        /\ SentIds = IdsOf(Batch)
        /\ Cardinality(SentIds) = 2
        /\ Len(summaries) = 1
        /\ summaries[1].text.total_found = 3
        /\ summaries[1].text.total_filtered = 2
        /\ summaries[1].text.total_new = 2

C12_Witness ==
    /\ pc = "done"
    /\ raised = {}
    /\ loaded = {}
    /\ loadOk
    /\ AllSendsSucceeded
    /\ Len(cycleSends) = 2
    /\ summaries[1].ok

\* C21: in bot.py the message send_summary sends at the end of a cycle is the
\* text formatted from the totals it was given: total found, matching, and
\* new notifications sent.
C21_BotSummaryCarriesTotals ==
    (program = "bot" /\ pc = "done") =>
        \A k \in 1..Len(summaries) :
            summaries[k].text
                = BotSummaryMessage(Len(all_internships), Len(Batch), sent_count)

\* C22: in main.py a failure that leaves the body of run_check is followed by
\* one attempt of the error notification and by the end of the process with
\* status 1, whatever the attempt did; when the failure is caught no summary
\* of the cycle has been sent, and none is sent after it.
C22_OneErrorNoteNoSummary ==
    program = "main" =>
        /\ pc = "error" => (errorNotes = 0 /\ summaries = <<>>)
        /\ (proc = "exit1" /\ ValidConfig /\ ~interrupted) => errorNotes = 1
        /\ errorNotes <= 1

C22_Witness ==
    /\ program = "main"
    /\ proc = "exit1"
    /\ errorNotes = 1
    /\ cycle = MaxCycles

\* every request of the fetch failed in transport
FailedAsAWhole(responses) == \A k \in 1..Len(responses) : ~responses[k].ok

\* every request was answered by a page without listings
NothingListed(responses) == [k \in 1..Len(responses) |-> Response(TRUE, <<>>)]

\* C23: when the transport of a source fails as a whole, what
\* fetch_internships hands to run_check differs from what it hands over when
\* the site answered and listed nothing.
C23_FailureSignalled ==
    (program = "main" /\ pc = "fetched" /\ FailedAsAWhole(callArg.responses))
        => callResult # fetch_internships(callArg.platform, NothingListed(callArg.responses))

RECURSIVE GoodCards(_)
GoodCards(cards) ==
    IF cards = <<>> THEN <<>>
    ELSE (IF ParseRaises(Head(cards)) THEN <<>> ELSE <<Head(cards)>>)
         \o GoodCards(Tail(cards))

WithoutBroken(responses) ==
    [k \in 1..Len(responses) |-> [responses[k] EXCEPT !.cards = GoodCards(@)]]

RECURSIVE CardCount(_)
CardCount(responses) ==
    IF responses = <<>> THEN 0
    ELSE Len(Head(responses).cards) + CardCount(Tail(responses))

\* C24: a card on which the parser raises is left out and nothing else is:
\* the fetch returns one posting for each other card of its pages, and the
\* same list, in the same order, as for the pages without the raising cards.
C24_BrokenCardSkipped ==
    pc = "fetched" =>
        LET clean == WithoutBroken(callArg.responses) IN
        /\ Len(callResult) = CardCount(clean)
        /\ callResult = IF program = "main"
                        THEN fetch_internships(callArg.platform, clean)
                        ELSE extract_internships(clean[1].cards)

C24_Witness ==
    /\ pc = "fetched"
    /\ Len(callArg.responses[1].cards) = MaxPage
    /\ ParseRaises(callArg.responses[1].cards[1])
    /\ ~ParseRaises(callArg.responses[1].cards[MaxPage])
    /\ Len(callResult) >= 1

RECURSIVE IsSubsequence(_, _)
IsSubsequence(s, t) ==
    IF s = <<>> THEN TRUE
    ELSE IF t = <<>> THEN FALSE
    ELSE IF Head(s) = Head(t) THEN IsSubsequence(Tail(s), Tail(t))
    ELSE IsSubsequence(s, Tail(t))

\* C25: run_check of main.py takes the sources one at a time in the order of
\* self.scrapers: while the loop runs, the sources dealt with are the first
\* ones of the list and the batch is their filtered lists joined in that
\* order; the new postings, which the sends follow one by one, are a
\* subsequence of the filtered lists of all sources joined in source order.
C25_SourceOrderKept ==
    program = "main" =>
        /\ pc = "fetch" =>
            /\ DOMAIN platform_stats = { scrapers[k] : k \in 1..(srcIdx - 1) }
            /\ all_internships = ConcatFiltered(srcIdx - 1)
        /\ Deduplicated =>
            /\ all_internships = ConcatFiltered(Len(scrapers))
            /\ IsSubsequence(new_internships, all_internships)
            /\ \A k \in 1..Len(cycleSends) : cycleSends[k].id = new_internships[k].id

C25_Witness ==
    /\ program = "main"
    /\ pc = "done"
    /\ scrapers = <<AICTE, Internshala>>
    /\ Len(new_internships) = 2
    /\ new_internships[1].platform = AICTE
    /\ new_internships[2].platform = Internshala
    /\ Len(cycleSends) = 2

\* C26: in a cycle of main.py get_new_internships is called at most once,
\* not before the loop has dealt with every enabled source, whether the
\* source raised or not, and every send attempt of the cycle comes after it.
C26_DedupOnceAfterSources ==
    program = "main" =>
        /\ loads <= 1
        /\ pc \in {"fetch", "dedup"} => (loads = 0 /\ cycleSends = <<>>)
        /\ pc = "dedup" => srcIdx = Len(scrapers) + 1
        /\ loads = 1 => DOMAIN platform_stats = { scrapers[k] : k \in 1..Len(scrapers) }
        /\ Deduplicated => loads = 1
        /\ cycleSends # <<>> => loads = 1

C26_Witness ==
    /\ program = "main"
    /\ pc = "notify"
    /\ loads = 1
    /\ scrapers = <<AICTE, Internshala>>
    /\ raised = {AICTE}
    /\ cycleSends # <<>>
    /\ cycle = MaxCycles

SummaryFailed == summaries # <<>> /\ ~summaries[1].ok

\* what get_new_internships left in the seen file is still there
FileAsPersisted ==
    IF saveOk THEN seenFile \in LastOf(WithNew(loaded, new_internships), SeenCap)
    ELSE loadOk => seenFile = loaded

\* C27: in main.py once the summary has been attempted, failed or not,
\* run_check is at its end without error: the process is alive, no error
\* notification has been made, and the seen file is as get_new_internships
\* of this cycle left it.
C27_SummaryFailureNotFatal ==
    (program = "main" /\ summaries # <<>>) =>
        /\ pc = "done"
        /\ proc = "alive"
        /\ errorNotes = 0
        /\ FileAsPersisted

C27_Witness ==
    /\ program = "main"
    /\ pc = "done"
    /\ SummaryFailed
    /\ saves = 1 /\ saveOk
    /\ new_internships # <<>>
    /\ IdsOf(new_internships) \subseteq seenFile

\* C28: in both programs the request of a posting notification carries a
\* link button exactly when the posting has a details url, and a message
\* sent for something that has none, as the summary, carries no button.
C28_LinkOnlyWithUrl ==
    /\ \A k \in 1..Len(cycleSends) :
            (cycleSends[k].keyboard # {}) <=> (new_internships[k].details_url # NoUrl)
    /\ \A k \in 1..Len(summaries) : summaries[k].keyboard = {}

TriedNow == { cycleSends[k].id : k \in 1..Len(cycleSends) }

\* every cycle so far, the one in progress included, has read and written the
\* seen file and has handed no more ids than the cap to the write
AllWentWell ==
    /\ \A k \in 1..Len(history) :
            history[k].loaded /\ history[k].saved /\ history[k].within
    /\ loadOk /\ saveOk
    /\ Cardinality(WithNew(loaded, new_internships)) <= SeenCap

\* C29: over the completed cycles of a run of main.py in which every read
\* and write of the seen file succeeded and the ids stayed within the cap,
\* the ids with a send attempt in one cycle have none in another.
C29_OneCyclePerId ==
    AllWentWell =>
        /\ \A k \in 1..Len(history) : history[k].tried \cap TriedNow = {}
        /\ \A j, k \in 1..Len(history) :
                j < k => history[j].tried \cap history[k].tried = {}

C29_Witness ==
    /\ AllWentWell
    /\ pc = "done"
    /\ Len(history) = 1
    /\ history[1].tried # {}
    /\ history[1].tried \subseteq IdsOf(Batch)
    /\ seenFile \cap OldIds # {}
    /\ Cardinality(seenFile) = SeenCap

\* ids of cycle k whose send attempts all failed, the cycle having written
\* the seen file
FailedAndSaved(k) ==
    IF history[k].saved THEN history[k].tried \ history[k].sent ELSE {}

DedupStep == pc = "dedup" /\ pc' = "notify"

\* C30 as stated: a new posting whose send failed in a cycle that wrote the
\* seen file is not returned as new by a later cycle that finds its id in the
\* file.
C30_FailedNeverNewWhileStored ==
    [][DedupStep =>
        \A k \in 1..Len(history) : \A id \in FailedAndSaved(k) :
            id \in seenFile => id \notin IdsOf(new_internships')]_vars

\* C30: a new posting whose send failed in a cycle that wrote the seen file
\* is not returned as new by a later cycle that finds its id in the file and
\* succeeds in reading the file: the failed notification is not tried again.
C30_FailedNotRetried ==
    [][(DedupStep /\ loadOk') =>
        \A k \in 1..Len(history) : \A id \in FailedAndSaved(k) :
            id \in seenFile => id \notin IdsOf(new_internships')]_vars

C30_Witness ==
    /\ pc = "notify"
    /\ loadOk
    /\ Len(history) = 1
    /\ FailedAndSaved(1) # {}
    /\ FailedAndSaved(1) \subseteq loaded
    /\ FailedAndSaved(1) \subseteq IdsOf(Batch)
    /\ new_internships = <<>>

RECURSIVE SumOfNew(_, _)
SumOfNew(stats, keys) ==
    IF keys = {} THEN 0
    ELSE LET k == CHOOSE x \in keys : TRUE
         IN  stats[k].new + SumOfNew(stats, keys \ {k})

SuccessfulSends == Cardinality({ k \in 1..Len(cycleSends) : cycleSends[k].ok })

\* C31: in every summary main.py sends, the counters of each source shown
\* satisfy new <= filtered <= found, the total of new notifications is the
\* number of posting sends of the cycle that succeeded, and that total is at
\* most the sum of the new counters of the sources.
C31_SummaryCountersConsistent ==
    program = "main" =>
        \A k \in 1..Len(summaries) :
            LET text == summaries[k].text IN
            /\ \A p \in DOMAIN text.platforms :
                    /\ text.platforms[p].new <= text.platforms[p].filtered
                    /\ text.platforms[p].filtered <= text.platforms[p].found
            /\ text.total_new = SuccessfulSends
            /\ text.total_new <= SumOfNew(text.platforms, DOMAIN text.platforms)

C31_Witness ==
    /\ program = "main"
    /\ pc = "done"
    /\ Len(summaries) = 1
    /\ DOMAIN summaries[1].text.platforms = Platforms
    /\ Len(cycleSends) = 2
    /\ summaries[1].text.total_new = 1
    /\ \E p \in Platforms : summaries[1].text.platforms[p].filtered
                                < summaries[1].text.platforms[p].found

\* the postings the two sites can list
Listed == UNION { { ParseCard(p, c) : c \in CardsOf(p) } : p \in Platforms }

\* some configured domain occurs in the text filter_by_domain searches
OfPreferredDomain(x) ==
    \E d \in 1..Len(preferred_domains) :
        Contains(Lower(preferred_domains[d]), SearchText(x))

\* ids of the listings that do not pass filter_by_domain as configured
RejectedIds == { x.id : x \in { y \in Listed : ~OfPreferredDomain(y) } }

\* C32: in main.py a posting that filter_by_domain drops has no effect
\* after the filter: its id never gets into the seen file and it never has
\* a send attempt; and what a cycle writes to the seen file is part of what
\* it loaded together with the ids of its filtered postings.
C32_RejectedLeaveNoTrace ==
    (program = "main" /\ interests = preferred_domains) =>
        /\ seenFile \cap RejectedIds = {}
        /\ attempted \cap RejectedIds = {}
        /\ IdsOf(new_internships) \cap RejectedIds = {}
        /\ (Deduplicated /\ saveOk) =>
                seenFile \subseteq loaded \cup IdsOf(ConcatFiltered(Len(scrapers)))

C32_Witness ==
    /\ program = "main"
    /\ pc = "done"
    /\ saveOk
    /\ \E p \in DOMAIN platform_stats : platform_stats[p].filtered < platform_stats[p].found
    /\ \E id \in seenFile : insertedAt[id] = cycle
    /\ Len(cycleSends) >= 1
    /\ cycle = MaxCycles

====
